---- MODULE Spec2Model ----
(***************************************************************************)
(* RouteRider bot (src/app.py): the WhatsApp conversation state machine    *)
(* process_message, the JSON API handlers, and the PostgreSQL tables they  *)
(* read and write.                                                         *)
(*                                                                         *)
(* Texts are sequences of one-character strings; an absent value (Python   *)
(* None) and the empty string are both the empty sequence: every test the  *)
(* code makes on such a value is a truthiness test, which cannot tell them *)
(* apart.  Tables are sets of rows.  The columns trip_date, trip_time,     *)
(* verified and created_at are written once and read by no handler that    *)
(* changes state; they are left out.                                       *)
(***************************************************************************)
EXTENDS Integers, Sequences, FiniteSets, TLC

(***************************************************************************)
(* Characters and strings                                                  *)
(***************************************************************************)
NL == "\n"
Whitespace == {" ", "\t", NL}
Digits == {"0", "1", "2", "3", "4", "5", "6", "7", "8", "9"}
None == << >>

UpperToLower ==
  [c \in {"A","B","C","D","E","F","G","H","I","J","K","L","M",
          "N","O","P","Q","R","S","T","U","V","W","X","Y","Z"} |->
     CASE c = "A" -> "a" [] c = "B" -> "b" [] c = "C" -> "c" [] c = "D" -> "d"
       [] c = "E" -> "e" [] c = "F" -> "f" [] c = "G" -> "g" [] c = "H" -> "h"
       [] c = "I" -> "i" [] c = "J" -> "j" [] c = "K" -> "k" [] c = "L" -> "l"
       [] c = "M" -> "m" [] c = "N" -> "n" [] c = "O" -> "o" [] c = "P" -> "p"
       [] c = "Q" -> "q" [] c = "R" -> "r" [] c = "S" -> "s" [] c = "T" -> "t"
       [] c = "U" -> "u" [] c = "V" -> "v" [] c = "W" -> "w" [] c = "X" -> "x"
       [] c = "Y" -> "y" [] c = "Z" -> "z"]

\* str.lower()
Lower(s) ==
  [i \in 1..Len(s) |-> IF s[i] \in DOMAIN UpperToLower THEN UpperToLower[s[i]] ELSE s[i]]

\* str.strip()
RECURSIVE LStrip(_)
LStrip(s) ==
  IF s # << >> /\ Head(s) \in Whitespace THEN LStrip(Tail(s)) ELSE s

RECURSIVE RStrip(_)
RStrip(s) ==
  IF s # << >> /\ s[Len(s)] \in Whitespace THEN RStrip(SubSeq(s, 1, Len(s) - 1)) ELSE s

Strip(s) == RStrip(LStrip(s))

\* c in s
Contains(s, c) == \E i \in 1..Len(s) : s[i] = c

\* the index of the first c in s (s contains c)
IndexOf(s, c) == CHOOSE i \in 1..Len(s) : s[i] = c /\ \A j \in 1..(i - 1) : s[j] # c

\* s.split(c, 1) for an s that contains c: the parts before and after the first c
SplitOnce(s, c) ==
  << SubSeq(s, 1, IndexOf(s, c) - 1), SubSeq(s, IndexOf(s, c) + 1, Len(s)) >>

\* s.split(): the maximal runs of non-whitespace characters
RECURSIVE SplitWords(_)
SplitWords(s) ==
  LET t == LStrip(s)
      n == IF \E i \in 1..Len(t) : t[i] \in Whitespace
           THEN (CHOOSE i \in 1..Len(t) : t[i] \in Whitespace
                                          /\ \A j \in 1..(i - 1) : t[j] \notin Whitespace) - 1
           ELSE Len(t)
  IN IF t = << >> THEN << >>
     ELSE << SubSeq(t, 1, n) >> \o SplitWords(SubSeq(t, n + 1, Len(t)))

\* str.splitlines(): the pieces between line breaks, without a last empty piece
RECURSIVE SplitLines(_)
SplitLines(s) ==
  IF s = << >> THEN << >>
  ELSE IF Contains(s, NL)
       THEN << SplitOnce(s, NL)[1] >> \o SplitLines(SplitOnce(s, NL)[2])
       ELSE << s >>

\* s.startswith(p)
StartsWith(s, p) == Len(s) >= Len(p) /\ SubSeq(s, 1, Len(p)) = p

\* str.isdigit()
IsDigit(s) == s # << >> /\ \A i \in 1..Len(s) : s[i] \in Digits

DigitValue(c) ==
  CASE c = "0" -> 0 [] c = "1" -> 1 [] c = "2" -> 2 [] c = "3" -> 3 [] c = "4" -> 4
    [] c = "5" -> 5 [] c = "6" -> 6 [] c = "7" -> 7 [] c = "8" -> 8 [] c = "9" -> 9

RECURSIVE DigitsValue(_)
DigitsValue(s) ==
  IF s = << >> THEN 0 ELSE 10 * DigitsValue(SubSeq(s, 1, Len(s) - 1)) + DigitValue(s[Len(s)])

\* int(s) succeeds: an optional sign and decimal digits, blanks around them allowed
IsInt(s) ==
  LET t == Strip(s)
  IN \/ IsDigit(t)
     \/ t # << >> /\ Head(t) \in {"-", "+"} /\ IsDigit(Tail(t))

\* int(s), for an s with IsInt(s)
ToInt(s) ==
  LET t == Strip(s)
  IN IF Head(t) = "-" THEN 0 - DigitsValue(Tail(t))
     ELSE IF Head(t) = "+" THEN DigitsValue(Tail(t))
     ELSE DigitsValue(t)

\* the truth value Python gives a string or None
Truthy(s) == s # << >>

\* a or b
Or(a, b) == IF Truthy(a) THEN a ELSE b

(***************************************************************************)
(* parse_kv_lines                                                          *)
(***************************************************************************)
\* dict.get(k) and dict.get(k, ""): the value, or the empty sequence
Get(data, k) == IF k \in DOMAIN data THEN data[k] ELSE None

\* a dict that keeps the value a key already has
PutFirst(data, k, v) ==
  [x \in DOMAIN data \cup {k} |-> IF x \in DOMAIN data THEN data[x] ELSE v]

\* data[k] = v
Put(data, k, v) == [x \in DOMAIN data \cup {k} |-> IF x = k THEN v ELSE data[x]]

EmptyDict == [x \in {} |-> None]

\* one turn of the loop of parse_kv_lines
ParseLine(data, rawline) ==
  LET line == Strip(rawline)
  IN IF line = << >> THEN data
     ELSE IF Contains(line, ":")
          THEN Put(data, Lower(Strip(SplitOnce(line, ":")[1])), Strip(SplitOnce(line, ":")[2]))
     ELSE IF Contains(line, "=")
          THEN Put(data, Lower(Strip(SplitOnce(line, "=")[1])), Strip(SplitOnce(line, "=")[2]))
     ELSE data

RECURSIVE ParseLines(_, _)
ParseLines(data, lines) ==
  IF lines = << >> THEN data ELSE ParseLines(ParseLine(data, Head(lines)), Tail(lines))

parse_kv_lines(text) == ParseLines(EmptyDict, SplitLines(text))

(***************************************************************************)
(* Inputs                                                                  *)
(***************************************************************************)
Phones == {"p1", "p2"}
Roles == {"driver", "passenger"}

\* requests to POST /api/bookings that may be in progress at the same time
Reqs == {1, 2}

\* the tables stop growing at these sizes
MaxTrips == 1
MaxBookings == 2
\* the texts given to parse_kv_lines: lines of so many characters, so many lines
MaxLineLen == 3
MaxLines == 2
\* the messages followed step by step, and the trips they may post
MaxMessages == 3
MaxPosted == 2

K_name == <<"n","a","m","e">>
K_full_name == <<"f","u","l","l"," ","n","a","m","e">>
K_route == <<"r","o","u","t","e">>
K_car == <<"c","a","r">>
K_vehicle == <<"v","e","h","i","c","l","e">>
K_plate == <<"p","l","a","t","e">>
K_plate_number == <<"p","l","a","t","e"," ","n","u","m","b","e","r">>
K_from == <<"f","r","o","m">>
K_origin == <<"o","r","i","g","i","n">>
K_to == <<"t","o">>
K_destination == <<"d","e","s","t","i","n","a","t","i","o","n">>
K_seats == <<"s","e","a","t","s">>
K_price == <<"p","r","i","c","e">>

Cmd_help == <<"/","h","e","l","p">>
Cmd_register == <<"/","r","e","g","i","s","t","e","r">>
Cmd_post_trip == <<"/","p","o","s","t","_","t","r","i","p">>
Cmd_complete == <<"/","c","o","m","p","l","e","t","e">>
Cmd_my_stats == <<"/","m","y","_","s","t","a","t","s">>
Cmd_ride == <<"/","r","i","d","e">>

\* the lines of the messages a contact sends
L_NAME_A == <<"N","A","M","E",":"," ","A">>
L_name_B == <<"n","a","m","e","=","B">>
L_ROUTE_XY == <<"R","O","U","T","E",":"," ","X"," ","-"," ","Y">>
L_route_YX == <<"r","o","u","t","e",":","Y","-","X">>
L_ROUTE_nodash == <<"R","O","U","T","E",":"," ","X"," ","Y">>
L_CAR_C == <<"C","A","R",":"," ","C">>
L_vehicle_D == <<"V","e","h","i","c","l","e"," ",":"," ","D">>
L_PLATE_P == <<"P","L","A","T","E",":"," ","P">>
L_plate_number_Q == <<"p","l","a","t","e"," ","n","u","m","b","e","r",":","Q">>
L_FROM_X == <<"F","R","O","M",":"," ","X">>
L_TO_Y == <<"T","O",":"," ","Y">>
L_TO_empty == <<"T","O",":"," ">>
L_DATE == <<"D","A","T","E",":"," ","2","0","2","6","-","0","2","-","2","0">>
L_TIME == <<"T","I","M","E",":"," ","0","6",":","3","0">>
L_SEATS_3 == <<"S","E","A","T","S",":"," ","3">>
L_SEATS_0 == <<"S","E","A","T","S",":"," ","0">>
L_SEATS_x == <<"S","E","A","T","S",":"," ","x">>
L_PRICE_2500 == <<"P","R","I","C","E",":"," ","2","5","0","0">>
L_PRICE_5 == <<"p","r","i","c","e",":","5">>

RECURSIVE JoinLines(_)
JoinLines(lines) ==
  IF Len(lines) = 0 THEN << >>
  ELSE IF Len(lines) = 1 THEN lines[1]
  ELSE lines[1] \o <<NL>> \o JoinLines(Tail(lines))

\* complete registration replies
T_RegA == JoinLines(<< L_NAME_A, L_ROUTE_XY, L_CAR_C, L_PLATE_P >>)
T_RegB == JoinLines(<< L_name_B, L_route_YX, L_vehicle_D, L_plate_number_Q >>)
\* registration replies with a field missing: no plate, a route without '-'
T_RegNoPlate == JoinLines(<< L_NAME_A, L_ROUTE_XY, L_CAR_C >>)
T_RegNoDash == JoinLines(<< L_NAME_A, L_ROUTE_nodash, L_CAR_C, L_PLATE_P >>)
\* complete trip replies
T_Trip3 == JoinLines(<< L_FROM_X, L_TO_Y, L_DATE, L_TIME, L_SEATS_3, L_PRICE_2500 >>)
\* trip replies with a field missing or empty
T_TripNoPrice == JoinLines(<< L_FROM_X, L_TO_Y, L_SEATS_3 >>)
T_TripNoDest == JoinLines(<< L_FROM_X, L_TO_empty, L_SEATS_3, L_PRICE_5 >>)
\* trip replies with all four fields present and SEATS not a positive number
T_TripSeats0 == JoinLines(<< L_FROM_X, L_TO_Y, L_SEATS_0, L_PRICE_5 >>)
T_TripSeatsX == JoinLines(<< L_FROM_X, L_TO_Y, L_SEATS_x, L_PRICE_5 >>)
\* a ride request
T_RideXY == JoinLines(<< L_FROM_X, L_TO_Y, L_DATE, L_TIME >>)

T_help == <<"/","H","e","l","p">>
T_register == <<" ","/","R","E","G","I","S","T","E","R">>
T_post_trip == <<"/","p","o","s","t","_","t","r","i","p"," ">>
T_ride == Cmd_ride
T_my_stats == Cmd_my_stats
T_complete_1 == Cmd_complete \o <<" ","1">>
T_complete_2 == Cmd_complete \o <<" ","2">>
T_complete_none == Cmd_complete
T_hello == <<"h","i">>

CommandTexts ==
  { T_help, T_register, T_post_trip, T_ride, T_my_stats,
    T_complete_1, T_complete_2, T_complete_none, T_hello }
RegTexts == { T_RegA, T_RegB, T_RegNoPlate, T_RegNoDash }
TripTexts == { T_Trip3, T_TripNoPrice, T_TripNoDest, T_TripSeats0, T_TripSeatsX }
Texts == CommandTexts \cup RegTexts \cup TripTexts \cup { T_RideXY }

\* the messages of the specifications below
TripFlowTexts ==
  { T_register, T_RegA, T_post_trip, T_ride, T_RideXY,
    T_complete_1, T_complete_2, T_complete_none }
    \cup TripTexts
RegisterFlowTexts == { T_help, T_register, T_post_trip, T_my_stats } \cup RegTexts

\* what process_message computes from a message alone: text.strip(), its lower(),
\* parse_kv_lines of it and lower.split()
Scan(rawtext) ==
  [text |-> Strip(rawtext),
   lower |-> Lower(Strip(rawtext)),
   data |-> parse_kv_lines(Strip(rawtext)),
   parts |-> SplitWords(Lower(Strip(rawtext)))]

\* Scan, for each of the messages sent (evaluated once)
Scanned == [t \in Texts |-> Scan(t)]

(***************************************************************************)
(* State                                                                   *)
(***************************************************************************)
VARIABLES
  users,            \* table users: rows [id, phone, role, full_name]
  driver_profiles,  \* table driver_profiles: rows [id, user_id, route_from, route_to, car_model, plate]
  trips,            \* table trips: rows [id, driver_user_id, origin, destination,
                    \*                    seats_total, seats_booked, price_per_seat, status]
  bookings,         \* table bookings: rows [id, trip_id, passenger_user_id, seats, amount_paid, status]
  ride_requests,    \* table ride_requests: no handler writes it
  user_states,      \* the dict user_states: phone -> [state |-> ...]
  tx,               \* the open transaction of each request to POST /api/bookings
  inbox,            \* the inbound WhatsApp messages whose handling is followed step by
                    \* step, by message id: [phone, text, pc, state]
  last              \* the handler that returned last, and what it answered

vars == << users, driver_profiles, trips, bookings, ride_requests, user_states, tx, inbox, last >>

\* what fetchone() gives when there is no row
NoRow == [id |-> 0]
Found(row) == row.id # 0

Max(S) == IF S = {} THEN 0 ELSE CHOOSE x \in S : \A y \in S : y <= x

\* the rows an open transaction has written and not yet committed
PendingUsers == { tx[r].new_user : r \in Reqs } \ { NoRow }
PendingBookings == { tx[r].booking : r \in Reqs } \ { NoRow }

\* SERIAL: the next id of a table, above every id handed out to a committed or
\* pending row
NextId(rows) == Max({ row.id : row \in rows }) + 1

\* SELECT * FROM users WHERE phone=%s ... fetchone()
UserByPhone(U, phone) ==
  IF \E u \in U : u.phone = phone THEN CHOOSE u \in U : u.phone = phone ELSE NoRow

\* SELECT * FROM trips WHERE id=%s ... fetchone()
TripById(T, id) ==
  IF \E t \in T : t.id = id THEN CHOOSE t \in T : t.id = id ELSE NoRow

\* user_states.get(phone, {}).get("state")
StateOf(S, phone) == IF phone \in DOMAIN S THEN S[phone].state ELSE "none"

\* user_states[phone] = {"state": st}
SetState(S, phone, st) ==
  [p \in DOMAIN S \cup {phone} |-> IF p = phone THEN [state |-> st] ELSE S[p]]

\* user_states.pop(phone, None)
PopState(S, phone) == [p \in DOMAIN S \ {phone} |-> S[p]]

(***************************************************************************)
(* ensure_user                                                             *)
(***************************************************************************)
\* ensure_user that writes the role it is given over the role of the row
ensure_user_sets_role(U, phone, role, full_name) ==
  { IF u.phone = phone THEN [u EXCEPT !.role = role] ELSE u : u \in U }
    \cup { [id |-> NextId(U \cup PendingUsers), phone |-> phone, role |-> role,
            full_name |-> full_name] : x \in { y \in {phone} : ~\E u \in U : u.phone = y } }

\* ensure_user that writes the name it is given over the name of the row
ensure_user_overwrites_name(U, phone, role, full_name) ==
  { IF u.phone = phone /\ full_name # << >> THEN [u EXCEPT !.full_name = full_name] ELSE u
    : u \in U }
    \cup { [id |-> NextId(U \cup PendingUsers), phone |-> phone, role |-> role,
            full_name |-> full_name] : x \in { y \in {phone} : ~\E u \in U : u.phone = y } }

\* the table users after ensure_user(cur, phone, role, full_name)
ensure_user(U, phone, role, full_name) ==
  LET row == UserByPhone(U, phone)
  IN IF Found(row)
     THEN IF Truthy(full_name) /\ ~Truthy(row.full_name)
          THEN (U \ {row}) \cup {[row EXCEPT !.full_name = full_name]}
          ELSE U
     ELSE U \cup {[id |-> NextId(U \cup PendingUsers), phone |-> phone,
                   role |-> role, full_name |-> full_name]}

\* seats_left that forgets the seats booked
seats_left_total(trip) == trip.seats_total

\* seats_left(trip)
seats_left(trip) == trip.seats_total - trip.seats_booked

(***************************************************************************)
(* process_message: what it returns and what it leaves in the tables and   *)
(* in user_states.  The handler runs in one transaction, committed when    *)
(* it returns and rolled back when it raises.                              *)
(***************************************************************************)
Reply(msg, info) == [msg |-> msg, info |-> info]

\* the replies of process_message (their wording shortened)
Msg_WentWrong == "Something went wrong. Try again."
Msg_IncompleteDetails == "Incomplete details. Reply like: NAME ROUTE CAR PLATE"
Msg_Registered == "Driver registered successfully! Now send /post_trip"
Msg_IncompleteTrip == "Incomplete trip. Reply like: FROM TO DATE TIME SEATS PRICE"
Msg_MustRegister == "You must register as a driver first using /register"
Msg_TripPosted == "Trip posted!"
Msg_TripPrompt == "POST TRIP Reply with: FROM TO DATE TIME SEATS PRICE"
Msg_Usage == "Usage: /complete 1"
Msg_OnlyDrivers == "Only drivers can complete trips."
Msg_NotFound == "Trip not found (or not yours)."
Msg_Completed == "Trip marked as completed."
Msg_NotRegistered == "Not registered yet. Use /register (drivers) or /ride (passengers)."
Msg_DriverStats == "DRIVER STATS"
Msg_PassengerStats == "PASSENGER STATS (coming soon)"
Msg_Help == "ROUTERIDER BOT COMMANDS /register /post_trip /ride /my_stats /complete"
Msg_RegisterPrompt == "DRIVER REGISTRATION Reply with: NAME ROUTE CAR PLATE"
Msg_SendHelp == "Send /help to see commands."

Result(U, D, T, S, reply) ==
  [users |-> U, driver_profiles |-> D, trips |-> T, user_states |-> S, reply |-> reply]

\* a return that wrote nothing
Returns(msg) == Result(users, driver_profiles, trips, user_states, Reply(msg, << >>))

\* an exception inside the with block: rollback, then the except clause
Raises == Returns(Msg_WentWrong)

\* the INSERT without its ON CONFLICT clause, on a table without UNIQUE (user_id)
insert_driver_profile(D, user_id, route_from, route_to, car, plate) ==
  D \cup {[id |-> NextId(D), user_id |-> user_id, route_from |-> route_from,
           route_to |-> route_to, car_model |-> car, plate |-> plate]}

\* INSERT INTO driver_profiles ... ON CONFLICT (user_id) DO UPDATE SET ...
upsert_driver_profile(D, user_id, route_from, route_to, car, plate) ==
  IF \E d \in D : d.user_id = user_id
  THEN { IF d.user_id = user_id
         THEN [d EXCEPT !.route_from = route_from, !.route_to = route_to,
                        !.car_model = car, !.plate = plate]
         ELSE d : d \in D }
  ELSE D \cup {[id |-> NextId(D), user_id |-> user_id, route_from |-> route_from,
                route_to |-> route_to, car_model |-> car, plate |-> plate]}

\* lines 225-232, with the state cleared
register_incomplete_resets(phone) ==
  Result(users, driver_profiles, trips, PopState(user_states, phone),
         Reply(Msg_IncompleteDetails, << >>))

\* lines 225-232: a field is missing
register_incomplete(phone) == Returns(Msg_IncompleteDetails)

\* state == "register_driver"
register_driver_reply(m, phone) ==
  LET data == m.data
      full_name == Or(Get(data, K_name), Get(data, K_full_name))
      route == Get(data, K_route)
      car == Or(Get(data, K_car), Get(data, K_vehicle))
      plate == Or(Get(data, K_plate), Get(data, K_plate_number))
      route_from == IF Contains(route, "-") THEN Strip(SplitOnce(route, "-")[1]) ELSE None
      route_to == IF Contains(route, "-") THEN Strip(SplitOnce(route, "-")[2]) ELSE None
      U == ensure_user(users, phone, "driver", full_name)
      user == UserByPhone(U, phone)
  IN IF ~(Truthy(full_name) /\ Truthy(route_from) /\ Truthy(route_to)
          /\ Truthy(car) /\ Truthy(plate))
     THEN register_incomplete(phone)
     ELSE Result(U,
                 upsert_driver_profile(driver_profiles, user.id, route_from, route_to, car, plate),
                 trips,
                 PopState(user_states, phone),
                 Reply(Msg_Registered, << >>))

\* INSERT INTO trips (...) VALUES (...) RETURNING *: the new row; seats_booked and
\* status take their defaults
new_trip(driver_id, origin, dest, seats_total, price) ==
  [id |-> NextId(trips), driver_user_id |-> driver_id, origin |-> origin,
   destination |-> dest, seats_total |-> seats_total, seats_booked |-> 0,
   price_per_seat |-> price, status |-> "active"]

\* the CHECK constraints of table trips
trips_check(t) ==
  /\ t.seats_total > 0
  /\ t.seats_booked >= 0
  /\ t.price_per_seat >= 0
  /\ t.status \in {"active", "completed", "cancelled"}

\* lines 259-268, with the state cleared
post_trip_incomplete_resets(phone) ==
  Result(users, driver_profiles, trips, PopState(user_states, phone),
         Reply(Msg_IncompleteTrip, << >>))

\* lines 259-268: a field is missing
post_trip_incomplete(phone) == Returns(Msg_IncompleteTrip)

\* state == "post_trip"
post_trip_reply(m, phone) ==
  LET data == m.data
      origin == Or(Get(data, K_from), Get(data, K_origin))
      dest == Or(Get(data, K_to), Get(data, K_destination))
      seats == Get(data, K_seats)
      price == Get(data, K_price)
      driver == UserByPhone(users, phone)
      trip == new_trip(driver.id, origin, dest, ToInt(seats), ToInt(price))
  IN IF ~(Truthy(origin) /\ Truthy(dest) /\ Truthy(seats) /\ Truthy(price))
     THEN post_trip_incomplete(phone)
     ELSE IF ~Found(driver) \/ driver.role # "driver"
     THEN Result(users, driver_profiles, trips, PopState(user_states, phone),
                 Reply(Msg_MustRegister, << >>))
     ELSE IF ~(IsInt(seats) /\ IsInt(price))
     THEN Raises
     ELSE IF ~trips_check(trip)
     THEN Raises
     ELSE Result(users, driver_profiles, trips \cup {trip}, PopState(user_states, phone),
                 Reply(Msg_TripPosted,
                       << trip.id, trip.origin, trip.destination,
                          trip.seats_total, trip.price_per_seat >>))

\* /post_trip without the check of the role
post_trip_command_unchecked(phone) ==
  Result(users, driver_profiles, trips, SetState(user_states, phone, "post_trip"),
         Reply(Msg_TripPrompt, << >>))

\* lower == "/post_trip"
post_trip_command(phone) ==
  LET u == UserByPhone(users, phone)
  IN IF ~Found(u) \/ u.role # "driver"
     THEN Returns(Msg_MustRegister)
     ELSE Result(users, driver_profiles, trips, SetState(user_states, phone, "post_trip"),
                 Reply(Msg_TripPrompt, << >>))

\* the WHERE clause without its driver_user_id=%s
complete_where_any(T, trip_id, user_id) == { t \in T : t.id = trip_id }

\* the rows of UPDATE trips ... WHERE id=%s AND driver_user_id=%s
complete_where(T, trip_id, user_id) ==
  { t \in T : t.id = trip_id /\ t.driver_user_id = user_id }

\* UPDATE trips SET status='completed' WHERE ...
complete_update(T, trip_id, user_id) ==
  { IF t \in complete_where(T, trip_id, user_id)
    THEN [t EXCEPT !.status = "completed"] ELSE t : t \in T }

\* cur.rowcount after that UPDATE
complete_rowcount(T, trip_id, user_id) == Cardinality(complete_where(T, trip_id, user_id))

\* lower.startswith("/complete")
complete_command(m, phone) ==
  LET parts == m.parts
      u == UserByPhone(users, phone)
  IN IF Len(parts) # 2 \/ ~IsDigit(parts[2])
     THEN Returns(Msg_Usage)
     ELSE IF ~Found(u) \/ u.role # "driver"
     THEN Returns(Msg_OnlyDrivers)
     ELSE IF complete_rowcount(trips, ToInt(parts[2]), u.id) = 0
     THEN Returns(Msg_NotFound)
     ELSE Result(users, driver_profiles, complete_update(trips, ToInt(parts[2]), u.id),
                 user_states, Reply(Msg_Completed, << >>))

\* lower == "/my_stats"
my_stats_command(phone) ==
  LET u == UserByPhone(users, phone)
  IN IF ~Found(u)
     THEN Returns(Msg_NotRegistered)
     ELSE IF u.role = "driver"
     THEN Result(users, driver_profiles, trips, user_states,
                 Reply(Msg_DriverStats,
                       << Cardinality({ t \in trips : t.driver_user_id = u.id }),
                          Cardinality({ t \in trips : t.driver_user_id = u.id
                                                      /\ t.status = "completed" }) >>))
     ELSE Returns(Msg_PassengerStats)

\* process_message(text, phone)
\* process_message from line 211 on, state being what line 209 read
process_message_from(state, rawtext, phone) ==
  LET m == Scanned[rawtext]
      lower == m.lower
  IN IF state = "register_driver" THEN register_driver_reply(m, phone)
     ELSE IF state = "post_trip" THEN post_trip_reply(m, phone)
     ELSE IF lower = Cmd_help
     THEN Returns(Msg_Help)
     ELSE IF lower = Cmd_register
     THEN Result(users, driver_profiles, trips, SetState(user_states, phone, "register_driver"),
                 Reply(Msg_RegisterPrompt, << >>))
     ELSE IF lower = Cmd_post_trip THEN post_trip_command(phone)
     ELSE IF StartsWith(lower, Cmd_complete) THEN complete_command(m, phone)
     ELSE IF lower = Cmd_my_stats THEN my_stats_command(phone)
     ELSE Returns(Msg_SendHelp)

process_message(rawtext, phone) ==
  process_message_from(StateOf(user_states, phone), rawtext, phone)

(***************************************************************************)
(* The handlers as steps                                                   *)
(***************************************************************************)
IdleTx ==
  [pc |-> "idle", trip_id |-> 0, phone |-> "", seats |-> 0, seen |-> NoRow,
   new_user |-> NoRow, passenger_id |-> 0, trip |-> NoRow, booking |-> NoRow,
   trip_update |-> NoRow]

\* arg: the text of a message, <<trip_id, seats>> of a booking request
Answer(op, phone, arg, code, reply, sent) ==
  [op |-> op, phone |-> phone, arg |-> arg, code |-> code, reply |-> reply, sent |-> sent]

Init ==
  /\ users = {}
  /\ driver_profiles = {}
  /\ trips = {}
  /\ bookings = {}
  /\ ride_requests = {}
  /\ user_states = [p \in {} |-> [state |-> "none"]]
  /\ tx = [r \in Reqs |-> IdleTx]
  /\ inbox = << >>
  /\ last = Answer("init", "", None, 0, Reply("", << >>), {})

\* a statement of a handler that runs as one step would wait for an open
\* transaction: an INSERT of a phone that an uncommitted row holds, or an UPDATE of
\* a trips row that an uncommitted UPDATE holds locked
Waits(U, T) ==
  \/ \E u \in U \ users : \E pu \in PendingUsers : pu.phone = u.phone
  \/ \E t \in trips \ T : \E r \in Reqs : tx[r].trip_update # NoRow /\ tx[r].trip_update.id = t.id

\* the tables and user_states as process_message left them, and the reply sent
\* back to the sender
Handled(text, phone, res, cap) ==
  /\ ~Waits(res.users, res.trips)
  /\ Cardinality(res.trips) <= cap
  /\ users' = res.users
  /\ driver_profiles' = res.driver_profiles
  /\ trips' = res.trips
  /\ user_states' = res.user_states
  /\ last' = Answer("whatsapp_webhook", phone, text, 200, res.reply,
                    {[to |-> phone, msg |-> res.reply.msg]})
  /\ UNCHANGED << ride_requests, bookings, tx >>

Deliver(text, phone, res) == Handled(text, phone, res, MaxTrips) /\ UNCHANGED inbox

\* whatsapp_webhook, POST: process_message, then send_message(from_number, reply)
whatsapp_webhook(text, phone) == Deliver(text, phone, process_message(text, phone))

\* whatsapp_webhook for a message whose handling other handlers can interleave
\* with: process_message up to line 209, where it reads the sender's state
MessageBegin(text, phone) ==
  /\ Len(inbox) < MaxMessages
  /\ inbox' = Append(inbox, [phone |-> phone, text |-> text, pc |-> "begun",
                             state |-> StateOf(user_states, phone)])
  /\ UNCHANGED << ride_requests, users, driver_profiles, trips, bookings, user_states, tx, last >>

\* the rest of process_message for message id, its commit and the reply
EndOf(id, res) ==
  /\ Handled(inbox[id].text, inbox[id].phone, res, MaxPosted)
  /\ inbox' = [inbox EXCEPT ![id].pc = "done"]

MessageEnd(id) ==
  /\ id \in DOMAIN inbox
  /\ inbox[id].pc = "begun"
  /\ EndOf(id, process_message_from(inbox[id].state, inbox[id].text, inbox[id].phone))

\* the gateway delivers message id once more: whatsapp_webhook runs on the same
\* text from the same sender (the handler never reads the id of a message)
Redelivered(id, res) ==
  /\ Handled(inbox[id].text, inbox[id].phone, res, MaxPosted)
  /\ UNCHANGED inbox

Redeliver(id) ==
  /\ id \in DOMAIN inbox
  /\ inbox[id].pc = "done"
  /\ Redelivered(id, process_message(inbox[id].text, inbox[id].phone))

\* where the repository can fail while process_message handles a message: at
\* get_db() or a statement inside the with block, or at the commit made when the
\* with block is left
FailurePoints == {"statement", "commit"}

\* process_message when the repository fails: the transaction is rolled back and
\* the except clause answers.  Every branch runs its statements before it writes
\* user_states, so a failed statement leaves user_states as it was; the commit
\* comes after the branch has written it
DeliverFailed(text, phone, at, res) ==
  /\ user_states' = IF at = "commit" THEN res.user_states ELSE user_states
  /\ last' = Answer("whatsapp_webhook", phone, text, 200, Reply(Msg_WentWrong, << at >>),
                    {[to |-> phone, msg |-> Msg_WentWrong]})
  /\ UNCHANGED << inbox, ride_requests, users, driver_profiles, trips, bookings, tx >>

\* whatsapp_webhook, POST, with a repository failure at one of FailurePoints
whatsapp_webhook_fails(text, phone, at) ==
  DeliverFailed(text, phone, at, process_message(text, phone))

\* POST /api/users/register
api_register_user(phone, role, full_name) ==
  /\ IF phone = "" \/ role \notin {"driver", "passenger"}
     THEN /\ last' = Answer("api_register_user", phone, None, 400,
                            Reply("phone required, role must be driver|passenger", << >>), {})
          /\ UNCHANGED users
     ELSE LET U == ensure_user(users, phone, role, full_name)
          IN /\ ~Waits(U, trips)
             /\ users' = U
             /\ last' = Answer("api_register_user", phone, None, 200,
                               Reply("ok", << UserByPhone(U, phone) >>), {})
  /\ UNCHANGED << inbox, ride_requests, driver_profiles, trips, bookings, user_states, tx >>

\* POST /api/trips
api_create_trip(driver_phone, origin, destination, seats_total, price_per_seat) ==
  LET driver == UserByPhone(users, driver_phone)
      trip == new_trip(driver.id, origin, destination, seats_total, price_per_seat)
  IN /\ Cardinality(trips) < MaxTrips
     /\ IF ~(driver_phone # "" /\ Truthy(origin) /\ Truthy(destination)
             /\ seats_total # 0 /\ price_per_seat # 0)
        THEN /\ last' = Answer("api_create_trip", driver_phone, None, 400,
                               Reply("missing fields", << >>), {})
             /\ UNCHANGED trips
        ELSE IF ~Found(driver) \/ driver.role # "driver"
        THEN /\ last' = Answer("api_create_trip", driver_phone, None, 404,
                               Reply("driver not found / not a driver", << >>), {})
             /\ UNCHANGED trips
        ELSE IF ~trips_check(trip)
        THEN /\ last' = Answer("api_create_trip", driver_phone, None, 500,
                               Reply("error", << >>), {})
             /\ UNCHANGED trips
        ELSE /\ trips' = trips \cup {trip}
             /\ last' = Answer("api_create_trip", driver_phone, None, 201,
                               Reply("ok", << trip >>), {})
     /\ UNCHANGED << inbox, ride_requests, users, driver_profiles, bookings, user_states, tx >>

\* a handler that takes any status
patch_status_any(status) == TRUE

\* line 632: status in ("confirmed", "cancelled", "completed")
patch_status_allowed(status) == status \in {"confirmed", "cancelled", "completed"}

\* PATCH /api/bookings/<id>
api_update_booking(booking_id, status) ==
  /\ IF ~patch_status_allowed(status)
     THEN /\ last' = Answer("api_update_booking", "", None, 400,
                            Reply("status must be confirmed|cancelled|completed", << >>), {})
          /\ UNCHANGED bookings
     ELSE IF ~\E b \in bookings : b.id = booking_id
     THEN /\ last' = Answer("api_update_booking", "", None, 404,
                            Reply("booking not found", << >>), {})
          /\ UNCHANGED bookings
     ELSE /\ bookings' = { IF b.id = booking_id THEN [b EXCEPT !.status = status] ELSE b
                           : b \in bookings }
          /\ last' = Answer("api_update_booking", "", None, 200,
                            Reply("ok", << booking_id, status >>), {})
  /\ UNCHANGED << inbox, ride_requests, users, driver_profiles, trips, user_states, tx >>

(***************************************************************************)
(* POST /api/bookings, statement by statement.  The transaction's rows are *)
(* the request's own until it commits; PostgreSQL's default isolation      *)
(* (read committed) lets each statement see what had been committed when   *)
(* it started.                                                             *)
(***************************************************************************)
OpenTx == { r \in Reqs : tx[r].pc # "idle" }

BookingAnswer(r, trip_id, seats, code, msg, info) ==
  Answer("api_create_booking", tx[r].phone, << trip_id, seats >>, code, Reply(msg, info), {})

\* the with block is left by return: what the transaction wrote is committed
Commit(r, trip_id, seats, new_user, code, msg) ==
  /\ users' = users \cup ({new_user} \ {NoRow})
  /\ tx' = [tx EXCEPT ![r] = IdleTx]
  /\ last' = BookingAnswer(r, trip_id, seats, code, msg, << >>)
  /\ UNCHANGED << inbox, ride_requests, driver_profiles, trips, bookings, user_states >>

\* the with block is left by an exception: rollback, then the except clause
Abort(r, trip_id, seats) ==
  /\ tx' = [tx EXCEPT ![r] = IdleTx]
  /\ last' = BookingAnswer(r, trip_id, seats, 500, "error", << >>)
  /\ UNCHANGED << inbox, ride_requests, users, driver_profiles, trips, bookings, user_states >>

\* lines 548-554, a request without trip_id or passenger_phone
BookBadRequest(phone, trip_id) ==
  /\ trip_id = 0 \/ phone = ""
  /\ last' = Answer("api_create_booking", phone, << trip_id, 1 >>, 400,
                    Reply("trip_id and passenger_phone required", << >>), {})
  /\ UNCHANGED << inbox, ride_requests, users, driver_profiles, trips, bookings, user_states, tx >>

\* a request with both: the transaction opens and ensure_user runs its SELECT
BookBegin(r, phone) ==
  /\ tx[r].pc = "idle"
  /\ \A q \in Reqs : q < r => tx[q].pc # "idle"
  /\ Cardinality(bookings) + Cardinality(OpenTx) < MaxBookings
  /\ tx' = [tx EXCEPT ![r] = [IdleTx EXCEPT !.pc = "begun", !.phone = phone,
                                !.seen = UserByPhone(users, phone)]]
  /\ UNCHANGED << inbox, ride_requests, users, driver_profiles, trips, bookings, user_states, last >>

\* the INSERT of ensure_user when its SELECT found no row, then lines 561-568.
\* trip_id and seats are the request's; line 561 is the first to use them, and the
\* model draws them here
BookCheck(r, trip_id, seats) ==
  LET t == tx[r]
      insert == ~Found(t.seen)
      new_user == IF insert
                  THEN [id |-> NextId(users \cup PendingUsers), phone |-> t.phone,
                        role |-> "passenger", full_name |-> None]
                  ELSE NoRow
      passenger == IF insert THEN new_user ELSE t.seen
      trip == TripById(trips, trip_id)
  IN /\ t.pc = "begun"
     /\ insert => ~\E pu \in PendingUsers : pu.phone = t.phone
     /\ IF insert /\ Found(UserByPhone(users, t.phone))
        THEN Abort(r, trip_id, seats)
        ELSE IF ~Found(trip)
        THEN Commit(r, trip_id, seats, new_user, 404, "trip not found")
        ELSE IF trip.status # "active"
        THEN Commit(r, trip_id, seats, new_user, 400, "trip not active")
        ELSE IF seats_left(trip) < seats
        THEN Commit(r, trip_id, seats, new_user, 400, "not enough seats left")
        ELSE /\ tx' = [tx EXCEPT ![r] = [t EXCEPT !.pc = "checked", !.trip_id = trip_id,
                                           !.seats = seats, !.new_user = new_user,
                                           !.passenger_id = passenger.id, !.trip = trip]]
             /\ UNCHANGED << inbox, ride_requests, users, driver_profiles, trips, bookings, user_states, last >>

\* the CHECK constraints of table bookings
bookings_check(b) ==
  /\ b.seats > 0
  /\ b.amount_paid >= 0
  /\ b.status \in {"pending", "confirmed", "cancelled", "completed"}

\* a table without the UNIQUE constraint
bookings_unique_unchecked(B, b) == FALSE

\* UNIQUE (trip_id, passenger_user_id) refuses row b
bookings_unique_violation(B, b) ==
  \E x \in B : x.trip_id = b.trip_id /\ x.passenger_user_id = b.passenger_user_id

\* lines 570-577: INSERT INTO bookings
BookInsert(r) ==
  LET t == tx[r]
      b == [id |-> NextId(bookings \cup PendingBookings), trip_id |-> t.trip_id,
            passenger_user_id |-> t.passenger_id, seats |-> t.seats,
            amount_paid |-> t.seats * t.trip.price_per_seat, status |-> "pending"]
  IN /\ t.pc = "checked"
     /\ IF ~bookings_check(b)
        THEN Abort(r, t.trip_id, t.seats)
        ELSE /\ ~bookings_unique_violation(PendingBookings, b)
             /\ IF bookings_unique_violation(bookings, b)
                THEN Abort(r, t.trip_id, t.seats)
                ELSE /\ tx' = [tx EXCEPT ![r] = [t EXCEPT !.pc = "inserted", !.booking = b]]
                     /\ UNCHANGED << inbox, ride_requests, users, driver_profiles, trips, bookings,
                                     user_states, last >>

\* the UPDATE written from the row the handler read: seats_booked = <read value> + %s
seats_update_stale(row, trip, seats) ==
  [row EXCEPT !.seats_booked = trip.seats_booked + seats]

\* UPDATE trips SET seats_booked = seats_booked + %s WHERE id=%s: the row it writes,
\* from the row as committed (trip is the row the handler read at line 561)
seats_update(row, trip, seats) == [row EXCEPT !.seats_booked = row.seats_booked + seats]

\* lines 579-583: UPDATE trips
BookUpdate(r) ==
  LET t == tx[r]
      row == seats_update(TripById(trips, t.trip_id), t.trip, t.seats)
  IN /\ t.pc = "inserted"
     /\ ~\E q \in Reqs : tx[q].trip_update # NoRow /\ tx[q].trip_update.id = t.trip_id
     /\ IF ~trips_check(row)
        THEN Abort(r, t.trip_id, t.seats)
        ELSE /\ tx' = [tx EXCEPT ![r] = [t EXCEPT !.pc = "updated", !.trip_update = row]]
             /\ UNCHANGED << inbox, ride_requests, users, driver_profiles, trips, bookings, user_states, last >>

\* line 585: return, and the commit of the transaction
BookCommit(r) ==
  LET t == tx[r]
  IN /\ t.pc = "updated"
     /\ users' = users \cup ({t.new_user} \ {NoRow})
     /\ bookings' = bookings \cup {t.booking}
     /\ trips' = { IF x.id = t.trip_update.id THEN t.trip_update ELSE x : x \in trips }
     /\ tx' = [tx EXCEPT ![r] = IdleTx]
     /\ last' = BookingAnswer(r, t.trip_id, t.seats, 201, "ok", << t.booking >>)
     /\ UNCHANGED << inbox, ride_requests, driver_profiles, user_states >>

(***************************************************************************)
(* The system                                                              *)
(***************************************************************************)
\* the chat engine: registration, trips and their completion, ride requests
Next ==
  \/ \E p \in Phones, t \in TripFlowTexts : whatsapp_webhook(t, p)
  \/ \E p \in Phones : api_register_user(p, "passenger", None)

Spec == Init /\ [][Next]_vars

\* the chat engine: registration, and the users the API makes
NextRegister ==
  \/ \E p \in Phones, t \in RegisterFlowTexts : whatsapp_webhook(t, p)
  \/ \E p \in Phones \cup {""}, ro \in Roles : api_register_user(p, ro, None)

SpecRegister == Init /\ [][NextRegister]_vars

\* POST /api/bookings by concurrent requests, with the handlers that make the
\* users and the trips they book
NextBooking ==
  \/ \E p \in Phones : whatsapp_webhook(T_complete_1, p)
  \/ \E p \in Phones : api_register_user(p, "driver", None)
  \/ \E p \in Phones : api_create_trip(p, <<"X">>, <<"Y">>, 2, 5)
  \/ \E p \in Phones : BookBadRequest(p, 0)
  \/ \E r \in Reqs, p \in Phones : BookBegin(r, p)
  \/ \E r \in Reqs, i \in 1..(MaxTrips + 1), n \in 0..2 : BookCheck(r, i, n)
  \/ \E r \in Reqs : BookInsert(r)
  \/ \E r \in Reqs : BookUpdate(r)
  \/ \E r \in Reqs : BookCommit(r)

SpecBooking == Init /\ [][NextBooking]_vars

\* the life of a trip: posted by chat or by the API, booked, completed
LifecycleTexts == { T_post_trip, T_Trip3, T_complete_1 }

NextLifecycle ==
  \/ \E p \in Phones, t \in LifecycleTexts : whatsapp_webhook(t, p)
  \/ \E p \in Phones : api_register_user(p, "driver", None)
  \/ \E p \in Phones : api_create_trip(p, <<"X">>, <<"Y">>, 2, 5)
  \/ \E r \in Reqs, p \in Phones : BookBegin(r, p)
  \/ \E r \in Reqs, n \in 1..2 : BookCheck(r, 1, n)
  \/ \E r \in Reqs : BookInsert(r)
  \/ \E r \in Reqs : BookUpdate(r)
  \/ \E r \in Reqs : BookCommit(r)

SpecLifecycle == Init /\ [][NextLifecycle]_vars

\* the three ways a user row is made or changed: /register, POST /api/users/register
\* and the ensure_user of POST /api/bookings (which commits the passenger row it
\* made even when the trip is not found)
UsersTexts == { T_register, T_RegA }

NextUsers ==
  \/ \E p \in Phones, t \in UsersTexts : whatsapp_webhook(t, p)
  \/ \E p \in Phones, ro \in Roles : api_register_user(p, ro, None)
  \/ \E r \in Reqs, p \in Phones : BookBegin(r, p)
  \/ \E r \in Reqs : BookCheck(r, 1, 1)

SpecUsers == Init /\ [][NextUsers]_vars

\* deliveries of the gateway: two handlers at once, and at-least-once delivery
DeliveryTexts == { T_post_trip, T_Trip3 }

NextDelivery ==
  \/ \E p \in Phones : api_register_user(p, "driver", None)
  \/ \E p \in Phones, t \in DeliveryTexts : MessageBegin(t, p)
  \/ \E id \in 1..MaxMessages : MessageEnd(id)
  \/ \E id \in 1..MaxMessages : Redeliver(id)

SpecDelivery == Init /\ [][NextDelivery]_vars

\* the chat engine: every command, in every conversation state
CommandFlowTexts == CommandTexts \cup { T_RegA, T_Trip3 }

NextCommands ==
  \/ \E p \in Phones, t \in CommandFlowTexts : whatsapp_webhook(t, p)
  \/ \E p \in Phones : api_register_user(p, "driver", None)

SpecCommands == Init /\ [][NextCommands]_vars

\* parse_kv_lines on its own: the texts it is given, and the call
ParseAlphabet == { "K", "k", ":", "=", " " }
ParseLinesIn == UNION { [1..n -> ParseAlphabet] : n \in 0..MaxLineLen }
ParseInputs == { JoinLines(ls) : ls \in UNION { [1..n -> ParseLinesIn] : n \in 0..MaxLines } }

ParseInit ==
  /\ users = {}
  /\ driver_profiles = {}
  /\ trips = {}
  /\ bookings = {}
  /\ ride_requests = {}
  /\ user_states = [p \in {} |-> [state |-> "none"]]
  /\ tx = [r \in Reqs |-> IdleTx]
  /\ inbox = << >>
  /\ \E text \in ParseInputs : last = Answer("input", "", text, 0, Reply("", << >>), {})

\* data = parse_kv_lines(text)
ParseCall ==
  /\ last.op = "input"
  /\ last' = Answer("parse_kv_lines", "", last.arg, 0, Reply("", parse_kv_lines(last.arg)), {})
  /\ UNCHANGED << inbox, ride_requests, users, driver_profiles, trips, bookings, user_states, tx >>

SpecParse == ParseInit /\ [][ParseCall]_vars

\* PATCH /api/bookings/<id> on the bookings that requests commit
PatchStatuses == { "pending", "confirmed", "cancelled", "completed" }

NextPatch ==
  \/ \E p \in Phones : api_register_user(p, "driver", None)
  \/ api_create_trip("p1", <<"X">>, <<"Y">>, 2, 5)
  \/ \E r \in Reqs, p \in Phones : BookBegin(r, p)
  \/ \E r \in Reqs : BookCheck(r, 1, 1)
  \/ \E r \in Reqs : BookInsert(r)
  \/ \E r \in Reqs : BookUpdate(r)
  \/ \E r \in Reqs : BookCommit(r)
  \/ \E id \in 1..(MaxBookings + 1), st \in PatchStatuses : api_update_booking(id, st)

SpecPatch == Init /\ [][NextPatch]_vars

\* the chat engine with a repository that can fail
FailureTexts == { T_register, T_RegA, T_RegNoPlate, T_post_trip, T_Trip3, T_TripNoPrice }

NextFailure ==
  \/ \E p \in Phones, t \in FailureTexts : whatsapp_webhook(t, p)
  \/ \E p \in Phones, t \in FailureTexts, at \in FailurePoints : whatsapp_webhook_fails(t, p, at)

SpecFailure == Init /\ [][NextFailure]_vars

(***************************************************************************)
(* Properties                                                              *)
(***************************************************************************)
RECURSIVE SumSeats(_)
SumSeats(B) ==
  IF B = {} THEN 0 ELSE LET b == CHOOSE x \in B : TRUE IN b.seats + SumSeats(B \ {b})

BookingsOf(trip_id) == { b \in bookings : b.trip_id = trip_id }

IsDriver(phone) == \E u \in users : u.phone = phone /\ u.role = "driver"

\* seats_total - seats_booked of the trip, as committed
SeatsFree(trip_id) ==
  LET t == CHOOSE x \in trips : x.id = trip_id IN t.seats_total - t.seats_booked

\* request r returns in this step
Ends(r) == tx[r].pc # "idle" /\ tx'[r].pc = "idle"

\* the contact has a booking on the trip
PairBooked(trip_id, phone) ==
  \E b \in bookings, u \in users :
    b.trip_id = trip_id /\ b.passenger_user_id = u.id /\ u.phone = phone

\* C1: every trip has 0 <= seats_booked <= seats_total, whatever the interleaving
\* of concurrent booking requests.
C1_SeatsWithinCapacity ==
  \A t \in trips : 0 <= t.seats_booked /\ t.seats_booked <= t.seats_total

\* C2: in every committed state a trip's seats_booked is the sum of the seats of
\* the bookings made for it, and every booking is for a trip of the table.
C2_SeatsEqualBookings ==
  /\ \A t \in trips : t.seats_booked = SumSeats(BookingsOf(t.id))
  /\ \A b \in bookings : \E t \in trips : t.id = b.trip_id

\* two requests booked the same trip, one committing while the other was open
C2_Witness ==
  \E t \in trips :
    /\ Cardinality(BookingsOf(t.id)) = 2
    /\ t.seats_booked = 3

\* C3: a (trip, passenger) pair has at most one booking, and a request for a pair
\* that is booked already ends in an error and leaves bookings and trips as they
\* were.
C3_OneBookingPerPair ==
  [][ /\ \A a, b \in bookings' :
           a.trip_id = b.trip_id /\ a.passenger_user_id = b.passenger_user_id => a = b
      /\ \A r \in Reqs :
           Ends(r) /\ PairBooked(last'.arg[1], last'.phone)
             => /\ last'.code \in {400, 404, 500}
                /\ bookings' = bookings
                /\ trips' = trips ]_vars

\* the second request for a pair passed the seat check and was refused by the
\* UNIQUE constraint
C3_Witness ==
  /\ last.op = "api_create_booking"
  /\ last.code = 500
  /\ PairBooked(last.arg[1], last.phone)
  /\ \E t \in trips : t.id = last.arg[1] /\ SeatsFree(t.id) >= last.arg[2] /\ last.arg[2] > 0

\* C4, as claimed: a request for more seats than seats_total - seats_booked is
\* answered 'not enough seats left', makes no booking and leaves seats_booked.
C4_Claimed ==
  [][ \A r \in Reqs, i \in 1..(MaxTrips + 1), n \in 0..2 :
        BookCheck(r, i, n) /\ Found(TripById(trips, i)) /\ n > SeatsFree(i)
          => /\ last'.reply.msg = "not enough seats left"
             /\ bookings' = bookings
             /\ trips' = trips ]_vars

\* C4, amended: such a request makes no booking, leaves seats_booked and ends
\* there; it is answered 'not enough seats left' when the trip is active, 'trip
\* not active' when it is not, and with an error when the INSERT of its passenger
\* met a row that another request had committed since its SELECT.
C4_NotEnoughSeats ==
  [][ \A r \in Reqs, i \in 1..(MaxTrips + 1), n \in 0..2 :
        BookCheck(r, i, n) /\ Found(TripById(trips, i)) /\ n > SeatsFree(i)
          => /\ bookings' = bookings
             /\ trips' = trips
             /\ tx'[r].pc = "idle"
             /\ last'.op = "api_create_booking"
             /\ last'.reply.msg =
                  IF ~Found(tx[r].seen) /\ Found(UserByPhone(users, tx[r].phone)) THEN "error"
                  ELSE IF TripById(trips, i).status # "active" THEN "trip not active"
                  ELSE "not enough seats left" ]_vars

\* a request was refused for want of seats on a trip that has some booked
C4_Witness ==
  /\ last.op = "api_create_booking"
  /\ last.reply.msg = "not enough seats left"
  /\ \E t \in trips : /\ t.id = last.arg[1]
                      /\ t.seats_booked > 0
                      /\ last.arg[2] > SeatsFree(t.id)
                      /\ last.arg[2] <= t.seats_total

\* this step is whatsapp_webhook delivering text t from contact p
Msg(t, p) ==
  /\ last'.op = "whatsapp_webhook"
  /\ last'.arg = t
  /\ last'.phone = p
  /\ whatsapp_webhook(t, p)

\* the reply of this step, and that it went to p and to nobody else
Replied(p, msg) ==
  /\ last'.reply.msg = msg
  /\ last'.sent = {[to |-> p, msg |-> msg]}

TablesUnchanged == UNCHANGED << users, driver_profiles, trips, bookings, ride_requests >>

\* the value a message gives for a field under one of two keys
Field(t, k1, k2) ==
  LET data == Scanned[t].data
      a == IF k1 \in DOMAIN data THEN data[k1] ELSE << >>
      b == IF k2 \in DOMAIN data THEN data[k2] ELSE << >>
  IN IF a # << >> THEN a ELSE b

\* C5: /post_trip from a contact in Idle who is no registered driver is denied: no
\* trip prompt, and the contact stays Idle.
C5_PostTripDenied ==
  [][ \A p \in Phones, t \in Texts :
        /\ Scanned[t].lower = Cmd_post_trip
        /\ StateOf(user_states, p) = "none"
        /\ ~IsDriver(p)
        /\ Msg(t, p)
        => /\ Replied(p, Msg_MustRegister)
           /\ StateOf(user_states', p) = "none"
           /\ user_states' = user_states
           /\ TablesUnchanged ]_vars

\* a passenger in Idle was denied
C5_Witness ==
  /\ last.op = "whatsapp_webhook"
  /\ Scanned[last.arg].lower = Cmd_post_trip
  /\ last.reply.msg = Msg_MustRegister
  /\ StateOf(user_states, last.phone) = "none"
  /\ \E u \in users : u.phone = last.phone /\ u.role = "passenger"

\* FROM, TO, SEATS or PRICE is missing from a trip reply
TripMissing(t) ==
  \/ Field(t, K_from, K_origin) = << >>
  \/ Field(t, K_to, K_destination) = << >>
  \/ Field(t, K_seats, K_seats) = << >>
  \/ Field(t, K_price, K_price) = << >>

\* SEATS is a positive number and PRICE a number that is not negative
TripNumbersValid(t) ==
  /\ IsInt(Field(t, K_seats, K_seats)) /\ ToInt(Field(t, K_seats, K_seats)) > 0
  /\ IsInt(Field(t, K_price, K_price)) /\ ToInt(Field(t, K_price, K_price)) >= 0

\* the step adds one trip, of contact p, with the fields of message t
TripCreated(t, p) ==
  \E new \in trips' \ trips :
    /\ trips' = trips \cup {new}
    /\ new.id \notin { x.id : x \in trips }
    /\ \E u \in users : u.phone = p /\ u.id = new.driver_user_id
    /\ new.origin = Field(t, K_from, K_origin)
    /\ new.destination = Field(t, K_to, K_destination)
    /\ new.seats_total = ToInt(Field(t, K_seats, K_seats))
    /\ new.price_per_seat = ToInt(Field(t, K_price, K_price))
    /\ new.seats_booked = 0
    /\ new.status = "active"

\* C6, as claimed: in AwaitingTripDetails a reply with FROM, TO, SEATS or PRICE
\* missing is answered by the re-prompt, makes no trip and leaves the state; a
\* reply with all four makes a trip and returns the contact to Idle.
C6_Claimed ==
  [][ \A p \in Phones, t \in Texts :
        StateOf(user_states, p) = "post_trip" /\ Msg(t, p)
        => IF TripMissing(t)
           THEN /\ Replied(p, Msg_IncompleteTrip)
                /\ trips' = trips
                /\ StateOf(user_states', p) = "post_trip"
           ELSE /\ Cardinality(trips') = Cardinality(trips) + 1
                /\ StateOf(user_states', p) = "none" ]_vars

\* C6, amended: the reply with all four makes the trip and returns the contact to
\* Idle when SEATS is a positive number and PRICE a number that is not negative;
\* when they are not, no trip is made and the state stays AwaitingTripDetails.
C6_TripDetails ==
  [][ \A p \in Phones, t \in Texts :
        StateOf(user_states, p) = "post_trip" /\ Msg(t, p)
        => IF TripMissing(t)
           THEN /\ Replied(p, Msg_IncompleteTrip)
                /\ trips' = trips
                /\ StateOf(user_states', p) = "post_trip"
           ELSE IF TripNumbersValid(t)
           THEN /\ Replied(p, Msg_TripPosted)
                /\ TripCreated(t, p)
                /\ StateOf(user_states', p) = "none"
           ELSE /\ trips' = trips
                /\ StateOf(user_states', p) = "post_trip" ]_vars

\* a driver's complete reply made a trip and the driver is in Idle again
C6_Witness ==
  /\ last.op = "whatsapp_webhook"
  /\ last.reply.msg = Msg_TripPosted
  /\ ~TripMissing(last.arg)
  /\ StateOf(user_states, last.phone) = "none"
  /\ \E t \in trips, u \in users : u.phone = last.phone /\ t.driver_user_id = u.id

\* the two ends of the ROUTE of a registration reply, None without a dash
RouteEnd(t, i) ==
  LET route == Field(t, K_route, K_route)
  IN IF Contains(route, "-") THEN Strip(SplitOnce(route, "-")[i]) ELSE << >>

\* NAME, ROUTE as "A - B", CAR or PLATE is missing from a registration reply
RegMissing(t) ==
  \/ Field(t, K_name, K_full_name) = << >>
  \/ RouteEnd(t, 1) = << >>
  \/ RouteEnd(t, 2) = << >>
  \/ Field(t, K_car, K_vehicle) = << >>
  \/ Field(t, K_plate, K_plate_number) = << >>

\* the step leaves one user row for contact p: a new driver row, or the row p had,
\* its name filled in when it was empty
UserUpserted(t, p) ==
  /\ { u \in users' : u.phone # p } = { u \in users : u.phone # p }
  /\ \E new \in users' :
       /\ { u \in users' : u.phone = p } = {new}
       /\ IF \E u \in users : u.phone = p
          THEN \E old \in users :
                 /\ old.phone = p
                 /\ new.id = old.id
                 /\ new.role = old.role
                 /\ new.full_name = IF old.full_name = << >>
                                    THEN Field(t, K_name, K_full_name)
                                    ELSE old.full_name
          ELSE /\ new.id \notin { u.id : u \in users }
               /\ new.role = "driver"
               /\ new.full_name = Field(t, K_name, K_full_name)

\* the step leaves one profile for the user of contact p, with the fields of t
ProfileUpserted(t, p) ==
  \E u \in users' :
    /\ u.phone = p
    /\ { d \in driver_profiles' : d.user_id # u.id } = { d \in driver_profiles : d.user_id # u.id }
    /\ \E new \in driver_profiles' :
         /\ { d \in driver_profiles' : d.user_id = u.id } = {new}
         /\ new.route_from = RouteEnd(t, 1)
         /\ new.route_to = RouteEnd(t, 2)
         /\ new.car_model = Field(t, K_car, K_vehicle)
         /\ new.plate = Field(t, K_plate, K_plate_number)
         /\ \A old \in driver_profiles : old.user_id = u.id => new.id = old.id

\* C7: in AwaitingDriverRegistration a reply with NAME, ROUTE (as "A - B"), CAR or
\* PLATE missing is answered by the re-prompt, writes nothing and leaves the state;
\* any other reply upserts the user and the driver profile (one profile per user,
\* all its fields replaced on re-registering) and returns the contact to Idle.
C7_DriverRegistration ==
  [][ \A p \in Phones, t \in Texts :
        StateOf(user_states, p) = "register_driver" /\ Msg(t, p)
        => IF RegMissing(t)
           THEN /\ Replied(p, Msg_IncompleteDetails)
                /\ TablesUnchanged
                /\ user_states' = user_states
           ELSE /\ Replied(p, Msg_Registered)
                /\ UserUpserted(t, p)
                /\ ProfileUpserted(t, p)
                /\ UNCHANGED << trips, bookings, ride_requests >>
                /\ StateOf(user_states', p) = "none" ]_vars

\* a driver registered a second time: the profile has the fields of the second reply
C7_Witness ==
  /\ last.op = "whatsapp_webhook"
  /\ last.arg = T_RegB
  /\ last.reply.msg = Msg_Registered
  /\ StateOf(user_states, last.phone) = "none"
  /\ \E u \in users :
       /\ u.phone = last.phone
       /\ u.full_name = <<"A">>
       /\ \E d \in driver_profiles :
            /\ d.user_id = u.id
            /\ d.plate = <<"Q">>
            /\ d.route_from = <<"Y">>
            /\ d.car_model = <<"D">>

\* C8: /ride from a contact in Idle is answered by the ride-request prompt and
\* moves the contact to AwaitingRideRequest; from there a reply with FROM and TO
\* makes a ride request and returns the contact to Idle.
C8_RideRequest ==
  [][ \A p \in Phones :
        /\ StateOf(user_states, p) = "none" /\ Msg(T_ride, p)
           => /\ last'.reply.msg # Msg_SendHelp
              /\ StateOf(user_states', p) = "request_ride"
        /\ StateOf(user_states, p) = "request_ride" /\ Msg(T_RideXY, p)
           => /\ Cardinality(ride_requests') = Cardinality(ride_requests) + 1
              /\ StateOf(user_states', p) = "none" ]_vars

\* the trip X -> Y with 3 seats, none booked, of a registered driver other than p
PostedTripXY(t, p) ==
  /\ t.origin = <<"X">> /\ t.destination = <<"Y">>
  /\ t.seats_total = 3 /\ t.seats_booked = 0 /\ t.status = "active"
  /\ \E u \in users :
       /\ u.id = t.driver_user_id /\ u.phone # p /\ u.role = "driver"
       /\ \E d \in driver_profiles : d.user_id = u.id

\* C9: once a driver has registered and posted a trip X -> Y with 3 seats, a
\* passenger's ride request for that route, date and time is matched to the trip:
\* its seats_booked becomes 1 and the driver is sent a notification.
C9_RideMatched ==
  [][ \A p \in Phones : \A t \in trips :
        /\ PostedTripXY(t, p)
        /\ last.op = "whatsapp_webhook" /\ last.arg = T_ride /\ last.phone = p
        /\ Msg(T_RideXY, p)
        => /\ \E n \in trips' : n.id = t.id /\ n.seats_booked = 1
           /\ \E u \in users, m \in last'.sent : u.id = t.driver_user_id /\ m.to = u.phone ]_vars

\* the trip id of a /complete message
CompleteId(t) == ToInt(Scanned[t].parts[2])

WellFormedComplete(t) ==
  /\ StartsWith(Scanned[t].lower, Cmd_complete)
  /\ Len(Scanned[t].parts) = 2
  /\ IsDigit(Scanned[t].parts[2])

\* contact p is the driver who owns trip id
Owns(p, id) ==
  \E u \in users, t \in trips :
    u.phone = p /\ u.role = "driver" /\ t.id = id /\ t.driver_user_id = u.id

\* the step marks trip id completed and changes nothing else
Completes(id) ==
  /\ trips' = { IF t.id = id THEN [t EXCEPT !.status = "completed"] ELSE t : t \in trips }
  /\ UNCHANGED << users, driver_profiles, bookings, ride_requests, user_states >>

\* C10, as claimed: /complete <tripId> changes the trip only for the driver who
\* owns it; every other sender leaves it as it was and is told "not found (or not
\* yours)", as for a trip id that does not exist.
C10_Claimed ==
  [][ \A p \in Phones, t \in Texts :
        WellFormedComplete(t) /\ StateOf(user_states, p) = "none" /\ Msg(t, p)
        => IF Owns(p, CompleteId(t))
           THEN Replied(p, Msg_Completed) /\ Completes(CompleteId(t))
           ELSE Replied(p, Msg_NotFound) /\ TablesUnchanged ]_vars

\* C10, amended: every other sender leaves the trip as it was; a sender who is a
\* registered driver is told "not found (or not yours)" and a sender who is not is
\* told that only drivers can complete trips, whether the trip exists or not.
C10_CompleteOwnerOnly ==
  [][ \A p \in Phones, t \in Texts :
        WellFormedComplete(t) /\ StateOf(user_states, p) = "none" /\ Msg(t, p)
        => IF Owns(p, CompleteId(t))
           THEN Replied(p, Msg_Completed) /\ Completes(CompleteId(t))
           ELSE /\ Replied(p, IF IsDriver(p) THEN Msg_NotFound ELSE Msg_OnlyDrivers)
                /\ TablesUnchanged
                /\ user_states' = user_states ]_vars

\* a driver asked to complete the active trip of another driver
C10_Witness ==
  /\ last.op = "whatsapp_webhook"
  /\ last.arg = T_complete_1
  /\ last.reply.msg = Msg_NotFound
  /\ IsDriver(last.phone)
  /\ \E t \in trips : t.id = 1 /\ t.status = "active" /\ ~Owns(last.phone, 1)

\* C11: a trip's status becomes completed only by /complete from the driver who
\* owns it, a trip is created active, and a trip that is completed or cancelled
\* keeps its status.
C11_StatusLifecycle ==
  [][ /\ \A t \in trips : \E n \in trips' :
           /\ n.id = t.id
           /\ n.status # t.status
              => /\ t.status = "active"
                 /\ n.status = "completed"
                 /\ last'.op = "whatsapp_webhook"
                 /\ WellFormedComplete(last'.arg)
                 /\ CompleteId(last'.arg) = t.id
                 /\ Owns(last'.phone, t.id)
      /\ \A n \in trips' : n.id \notin { t.id : t \in trips } => n.status = "active" ]_vars

\* the owner completed a trip that has a booking, and a later booking request for
\* it was refused
C11_Witness ==
  /\ last.op = "api_create_booking"
  /\ last.reply.msg = "trip not active"
  /\ \E t \in trips : t.id = 1 /\ t.status = "completed" /\ t.seats_booked > 0

\* this step is process_message failing at point `at` on text t from contact p
Failed(t, p, at) ==
  /\ last'.op = "whatsapp_webhook"
  /\ last'.arg = t
  /\ last'.phone = p
  /\ last'.reply.info = << at >>
  /\ whatsapp_webhook_fails(t, p, at)

\* C12: when the repository fails (a statement, or the commit) while a reply in
\* AwaitingDriverRegistration or AwaitingTripDetails is handled, the reply is the
\* generic failure message, nothing is written and the conversation state is as it
\* was: the state is cleared only once the write has succeeded.
C12_StateKeptOnFailure ==
  [][ \A p \in Phones, t \in Texts, at \in FailurePoints :
        /\ StateOf(user_states, p) \in {"register_driver", "post_trip"}
        /\ Failed(t, p, at)
        => /\ Replied(p, Msg_WentWrong)
           /\ TablesUnchanged
           /\ user_states' = user_states ]_vars

\* C13: in AwaitingTripDetails a reply whose four required fields are present
\* with SEATS or PRICE malformed (not a number, or SEATS of 0) is answered by the
\* trip re-prompt, makes no trip and leaves the state.
C13_MalformedReprompt ==
  [][ \A p \in Phones, t \in Texts :
        /\ StateOf(user_states, p) = "post_trip"
        /\ ~TripMissing(t)
        /\ ~TripNumbersValid(t)
        /\ Msg(t, p)
        => /\ Replied(p, Msg_IncompleteTrip)
           /\ trips' = trips
           /\ StateOf(user_states', p) = "post_trip" ]_vars

\* C14: a user's role is the role the row was created with, whatever /register
\* completions, POST /api/users/register calls and booking requests follow, and no
\* contact has two user rows.
C14_RoleFixed ==
  [][ /\ \A u \in users : \E n \in users' :
           n.id = u.id /\ n.phone = u.phone /\ n.role = u.role
      /\ \A a, b \in users' : a.phone = b.phone => a = b ]_vars

\* a contact that is a passenger completed /register and is a passenger still
C14_Witness ==
  /\ last.op = "whatsapp_webhook"
  /\ last.reply.msg = Msg_Registered
  /\ \E u \in users : u.phone = last.phone /\ u.role = "passenger"

\* C15: turns of one contact are serialized: of two handlers at once on the same
\* complete trip reply of a contact in AwaitingTripDetails, the one that ends
\* second, after the first has made its trip and cleared the state, makes no trip.
C15_DoubleSendOneTrip ==
  [][ \A j \in DOMAIN inbox :
        /\ inbox[j].pc = "begun"
        /\ inbox[j].state = "post_trip"
        /\ \E i \in DOMAIN inbox :
             /\ i # j
             /\ inbox[i].pc = "done"
             /\ inbox[i].state = "post_trip"
             /\ inbox[i].phone = inbox[j].phone
             /\ inbox[i].text = inbox[j].text
        /\ StateOf(user_states, inbox[j].phone) = "none"
        /\ ~TripMissing(inbox[j].text)
        /\ MessageEnd(j)
        => trips' = trips ]_vars

\* C16: a message delivered once more by the gateway makes no trip and no
\* registration beyond what its first delivery made.
C16_RedeliveryAddsNothing ==
  [][ \A id \in DOMAIN inbox :
        inbox[id].pc = "done" /\ Redeliver(id)
        => /\ trips' = trips
           /\ driver_profiles' = driver_profiles
           /\ users' = users ]_vars

\* C17: every driver profile belongs to a user whose role is driver, and no user
\* has two profiles.
C17_ProfilesOfDrivers ==
  /\ \A d \in driver_profiles : \E u \in users : u.id = d.user_id /\ u.role = "driver"
  /\ \A a, b \in driver_profiles : a.user_id = b.user_id => a = b

\* the message is one of the commands /help, /register, /post_trip, /complete,
\* /my_stats
IsCommand(t) ==
  \/ Scanned[t].lower \in { Cmd_help, Cmd_register, Cmd_post_trip, Cmd_my_stats }
  \/ StartsWith(Scanned[t].lower, Cmd_complete)

\* C18: a command sent in AwaitingDriverRegistration or AwaitingTripDetails is not
\* run as a command: it is answered by the re-prompt of the state the contact is
\* in, and the state and the tables stay as they were.
C18_CommandAsReply ==
  [][ \A p \in Phones, t \in Texts :
        /\ IsCommand(t)
        /\ StateOf(user_states, p) \in {"register_driver", "post_trip"}
        /\ Msg(t, p)
        => /\ Replied(p, IF StateOf(user_states, p) = "register_driver"
                         THEN Msg_IncompleteDetails ELSE Msg_IncompleteTrip)
           /\ TablesUnchanged
           /\ user_states' = user_states ]_vars

\* a driver in AwaitingTripDetails sent /complete for a trip of their own
C18_Witness ==
  /\ last.op = "whatsapp_webhook"
  /\ last.arg = T_complete_1
  /\ last.reply.msg = Msg_IncompleteTrip
  /\ StateOf(user_states, last.phone) = "post_trip"
  /\ \E t \in trips : t.id = 1 /\ t.status = "active" /\ Owns(last.phone, 1)

\* where a line is split: at its first ":", or without one at its first "=", or
\* nowhere (0)
SepAt(line) ==
  LET colons == { i \in 1..Len(line) : line[i] = ":" }
      equals == { i \in 1..Len(line) : line[i] = "=" }
  IN IF colons # {} THEN CHOOSE i \in colons : \A j \in colons : i <= j
     ELSE IF equals # {} THEN CHOOSE i \in equals : \A j \in equals : i <= j
     ELSE 0

KeyOf(line) == Lower(Strip(SubSeq(line, 1, SepAt(line) - 1)))
ValueOf(line) == Strip(SubSeq(line, SepAt(line) + 1, Len(line)))

\* the numbered lines of a text that are not blank and have a ":" or an "="
KeptLines(text) ==
  LET breaks == { i \in 1..Len(text) : text[i] = NL } \cup { 0, Len(text) + 1 }
  IN { << a, SubSeq(text, a + 1, b - 1) >> :
         << a, b >> \in { x \in breaks \X breaks :
                            /\ x[1] < x[2] /\ ~\E c \in breaks : x[1] < c /\ c < x[2]
                            /\ Strip(SubSeq(text, x[1] + 1, x[2] - 1)) # << >>
                            /\ SepAt(SubSeq(text, x[1] + 1, x[2] - 1)) # 0 } }

\* the mapping the text stands for: for each key, the value of its last line
Mapping(text) ==
  LET kept == KeptLines(text)
      keys == { KeyOf(l[2]) : l \in kept }
      lastOf(k) == CHOOSE l \in kept : KeyOf(l[2]) = k
                                       /\ \A m \in kept : KeyOf(m[2]) = k => m[1] <= l[1]
  IN [k \in keys |-> ValueOf(lastOf(k)[2])]

\* C19: parse_kv_lines returns, for every text, the mapping made of its non-blank
\* lines split once at the first ":" or, without one, at the first "=": lines with
\* neither dropped, keys lower-cased and trimmed, values trimmed, the last value
\* kept for a key that occurs more than once.
C19_ParseKvLines ==
  last.op = "parse_kv_lines" => last.reply.info = Mapping(last.arg)

\* a text of two lines with one key in two spellings: the first line is split at
\* its ":" (value "="), the second at its "=" (value empty), and the second stays
C19_Witness ==
  /\ last.op = "parse_kv_lines"
  /\ last.arg = << "K", ":", "=", NL, " ", "k", "=" >>
  /\ last.reply.info = [k \in { << "k" >> } |-> << >>]

\* this step is a completed /register of contact p
Registers(p) ==
  /\ last'.op = "whatsapp_webhook"
  /\ last'.phone = p
  /\ last'.reply.msg = Msg_Registered

\* C20: a user's name is set by the first operation that gives a name that is not
\* empty, and is never written over: ensure_user with another name leaves the name
\* of a user who has one.
C20_NameNeverOverwritten ==
  [][ /\ \A u \in users : \E n \in users' :
           /\ n.id = u.id
           /\ u.full_name # << >> => n.full_name = u.full_name
           /\ u.full_name = << >> /\ Registers(u.phone)
              => n.full_name = Field(last'.arg, K_name, K_full_name)
      /\ \A n \in users' :
           n.id \notin { u.id : u \in users } /\ Registers(n.phone)
           => n.full_name = Field(last'.arg, K_name, K_full_name) ]_vars

\* a user made without a name was named A by a first registration, and a second
\* registration under the name B left the name
C20_Witness ==
  /\ last.op = "whatsapp_webhook"
  /\ last.arg = T_RegB
  /\ last.reply.msg = Msg_Registered
  /\ \E u \in users : u.phone = last.phone /\ u.role = "passenger" /\ u.full_name = <<"A">>

\* C21: a contact whose stored state is post_trip has a user row of role driver,
\* and a reply of a contact in that state is never answered by the "must register
\* as a driver first" of lines 270-274.
C21_PostTripStateOfDrivers ==
  [][ /\ \A p \in Phones : StateOf(user_states', p) = "post_trip"
           => \E u \in users' : u.phone = p /\ u.role = "driver"
      /\ \A p \in Phones, t \in Texts :
           StateOf(user_states, p) = "post_trip" /\ Msg(t, p)
           => last'.reply.msg # Msg_MustRegister ]_vars

\* a driver in AwaitingTripDetails sent a complete reply and the trip was posted,
\* while the other contact, a passenger, has been refused /post_trip
C21_Witness ==
  /\ last.op = "whatsapp_webhook"
  /\ last.reply.msg = Msg_TripPosted
  /\ IsDriver(last.phone)
  /\ \E u \in users : u.phone # last.phone /\ u.role = "passenger"
  /\ \E p \in Phones : p # last.phone /\ StateOf(user_states, p) = "none"

\* C22: after process_message has answered "Driver registered successfully" to a
\* contact, /post_trip from that contact in Idle is accepted: the trip prompt is
\* sent and the state becomes AwaitingTripDetails.
C22_RegisteredCanPost ==
  [][ \A p \in Phones :
        /\ last.op = "whatsapp_webhook"
        /\ last.phone = p
        /\ last.reply.msg = Msg_Registered
        /\ StateOf(user_states, p) = "none"
        /\ Msg(T_post_trip, p)
        => /\ Replied(p, Msg_TripPrompt)
           /\ StateOf(user_states', p) = "post_trip" ]_vars

\* C23: no booking is committed for a trip that is not active when the booking
\* commits, whatever /complete of the trip's driver runs between the check of the
\* status and the insert.
C23_BookedTripsActive ==
  [][ \A b \in bookings' \ bookings :
        \E t \in trips' : t.id = b.trip_id /\ t.status = "active" ]_vars

\* this step is PATCH /api/bookings/<id> with the status st
Patches(id, st) ==
  /\ last'.op = "api_update_booking"
  /\ api_update_booking(id, st)

\* C24: PATCH /api/bookings/<id> changes the status of that booking and nothing
\* else, whatever the status, so the seats of a cancelled booking stay counted; it
\* never sets a status of pending; and no step of any handler lowers a trip's
\* seats_booked.
C24_PatchOnlyStatus ==
  [][ /\ \A id \in 1..(MaxBookings + 1), st \in PatchStatuses :
           Patches(id, st)
           => /\ UNCHANGED << users, driver_profiles, trips, ride_requests, user_states >>
              /\ { [b EXCEPT !.status = "-"] : b \in bookings' }
                   = { [b EXCEPT !.status = "-"] : b \in bookings }
              /\ \A n \in bookings' :
                   IF n.id = id /\ st # "pending" THEN n.status = st ELSE n \in bookings
      /\ \A t \in trips : \E n \in trips' : n.id = t.id /\ n.seats_booked >= t.seats_booked
      /\ \A b \in bookings, n \in bookings' :
           n.id = b.id /\ n.status = "pending" => b.status = "pending" ]_vars

\* a booking was cancelled and its seat is still counted on the trip
C24_Witness ==
  /\ last.op = "api_update_booking"
  /\ last.code = 200
  /\ \E b \in bookings :
       /\ b.status = "cancelled"
       /\ \E t \in trips : t.id = b.trip_id /\ t.seats_booked = SumSeats(BookingsOf(t.id))
                           /\ t.seats_booked = 2

====
